---- MODULE Spec2Model ----
(***************************************************************************)
(* Joystick-input-to-motion pipeline of the repository's three scripts:     *)
(*   WirelessJoystockcontrol/character.py  (SerialReader thread + Game)     *)
(*   joystick_game.py                      (blocking readline frame loop)   *)
(*   joystick-bluetooth/joystick/game.py   (CubeGame)                       *)
(* Each script is a separate program and has its own specification.        *)
(*                                                                         *)
(* Control values of character.py are Python floats; they are kept here as *)
(* exact integers in units of 1/CtrlUnit.  player_pos, the camera and the   *)
(* cube angle are outputs of Game.update that feed nothing back into the   *)
(* control, the queue or the threads, and are not part of the state.        *)
(*                                                                         *)
(* character.py is modelled from the construction of Game on: its module-  *)
(* level statements (SERIAL_PORT of line 29, which reads os.environ with   *)
(* no import of os) are taken to have run and to have set SERIAL_PORT.     *)
(***************************************************************************)
EXTENDS Integers, Sequences, FiniteSets, TLC

\* ------------------------------------------------------------- bounds
MaxLines == 3       \* lines the device sends in one run (character.py)
MaxJoyLines == 3    \* lines the device sends in one run (joystick_game.py)
MaxCubeLines == 3   \* lines the device sends in one run (game.py)
MaxOver == 40       \* how far beyond [ANALOG_MIN, ANALOG_MAX] a raw value lies
MaxFrames == 3      \* frames of the motion specification

\* ------------------------------------------------- program constants
ANALOG_MIN == 0
ANALOG_MAX == 1023
DEADZONE == 60
ROT_SPEED == 160
FORWARD_SPEED == 220
FPS == 60
\* SENSITIVITY_ROT = 0.25 and SENSITIVITY_MOVE = 0.6 as fractions
SENSITIVITY_ROT_NUM == 1
SENSITIVITY_ROT_DEN == 4
SENSITIVITY_MOVE_NUM == 3
SENSITIVITY_MOVE_DEN == 5

\* one unit of control: forward and turn are stored multiplied by CtrlUnit
CtrlUnit == (ANALOG_MAX - ANALOG_MIN) * 180

VARIABLES
    \* ---- character.py, environment
    serial_available,   \* SERIAL_AVAILABLE
    wire,               \* text the device has sent and the reader has not read
    sentLines,          \* the lines the device has sent, in order
    lineOpen,           \* the device is in the middle of a line
    \* ---- character.py, SerialReader
    rpc,                \* position of the reader thread
    r_running,          \* SerialReader.running
    ser,                \* SerialReader.ser: "none", "open", "closed"
    connected,          \* SerialReader.connected
    buffer,             \* local buffer of run()
    \* ---- character.py, Game
    fpc,                \* position of the foreground
    running,            \* Game.running
    serial_port,        \* Game.serial_port
    has_thread,         \* Game.serial_thread is not None
    bt_connected,       \* Game.bt_connected
    forward, turn,      \* Game.forward, Game.turn (times CtrlUnit)
    last_joy,           \* <<Game.last_joy_x, Game.last_joy_y>>
    q,                  \* Game.q
    keys,               \* keys held in the current frame (pygame.key.get_pressed)
    \* ---- character.py, history
    enq,                \* every sample the reader has put, in order
    applied,            \* every sample handle_serial_messages has applied, in order
    drainStart,         \* <<Len(enq), Len(applied)>> when the current drain began
    afterStop,          \* outcomes of the device reads begun after stop()
    \* ---- joystick_game.py
    jg_pc,              \* position of the script
    jg_running,         \* running
    jg_quit,            \* a pygame.QUIT event is pending
    jg_wire,            \* complete lines the device has sent, not yet read
    jg_sent,            \* number of lines the device has sent
    jg_fault,           \* the port has failed: every read raises
    character_x, character_y, character_color,
    joy,                \* <<joy_x, joy_y, button_state>>, or Unbound
    \* ---- joystick-bluetooth/joystick/game.py
    cg_pc,              \* position of the script
    cg_running,         \* running of CubeGame.run
    cg_quit,            \* a pygame.QUIT event is pending
    cg_wire,            \* complete lines the device has sent, not yet read
    cg_sent,            \* number of lines the device has sent
    cg_pos,             \* <<self.x, self.y>> of CubeGame, times CubeUnit
    \* ---- the axis arithmetic of character.py and joystick_game.py, applied
    \*      to one raw sample
    ax_pc,              \* "in", or the computation that has been applied
    ax_x, ax_y,         \* the raw sample
    ax_norm,            \* <<x_norm, y_norm>> of character.py, times the span
    ax_puts,            \* what the reader puts for the line {"x": ax_x, "y": ax_y}
    ax_ctl,             \* <<forward, turn>> of that sample, times CtrlUnit
    ax_disp,            \* the displacement <<dx, dy>> of joystick_game.py
    \* ---- the foreground of character.py, frame by frame, with its motion
    mo_pc,              \* "run" while Game.run is in its loop
    mo_forward, mo_turn,\* Game.forward, Game.turn (times CtrlUnit)
    mo_yaw,             \* Game.player_yaw (times CtrlUnit * FPS)
    mo_elapsed,         \* now - prev of the last frame, in 1/FPS seconds
    mo_dt,              \* dt of the last frame, in 1/FPS seconds
    mo_dyaw,            \* what the last frame added to player_yaw
    mo_moved,           \* length of the last frame's (dx, dz) (times CtrlUnit * FPS)
    mo_applied,         \* the samples the last frame took off the queue
    mo_before,          \* the samples the frame before it took off the queue
    mo_frames           \* number of frames run

charVars == <<serial_available, wire, sentLines, lineOpen, rpc, r_running, ser, connected, buffer,
              fpc, running, serial_port, has_thread, bt_connected, forward, turn,
              last_joy, q, keys, enq, applied, drainStart, afterStop>>

joyVars == <<jg_pc, jg_running, jg_quit, jg_wire, jg_sent, jg_fault,
             character_x, character_y, character_color, joy>>

cubeVars == <<cg_pc, cg_running, cg_quit, cg_wire, cg_sent, cg_pos>>

axisVars == <<ax_pc, ax_x, ax_y, ax_norm, ax_puts, ax_ctl, ax_disp>>

motionVars == <<mo_pc, mo_forward, mo_turn, mo_yaw, mo_elapsed, mo_dt, mo_dyaw, mo_moved,
                mo_applied, mo_before, mo_frames>>

vars == <<charVars, joyVars, cubeVars, axisVars, motionVars>>

\* what the steps of one script leave alone
exceptChar == <<joyVars, cubeVars, axisVars, motionVars>>
exceptJoy == <<charVars, cubeVars, axisVars, motionVars>>
exceptCube == <<charVars, joyVars, axisVars, motionVars>>
exceptAxis == <<charVars, joyVars, cubeVars, motionVars>>
exceptMotion == <<charVars, joyVars, cubeVars, axisVars>>

\* ------------------------------------------------------------------
\* Text on the serial line.  A fragment stands for a run of characters;
\* a JSON value is [t, n]: an integer n, a float of n tenths, a string
\* of the decimal digits of n, a non-numeric string, or null.
\* ------------------------------------------------------------------
Nil == [t |-> "none", n |-> 0]
JInt(n) == [t |-> "int", n |-> n]
JFloat(tenths) == [t |-> "float", n |-> tenths]
JNumStr(n) == [t |-> "numstr", n |-> n]
JStr == [t |-> "str", n |-> 0]
JNull == [t |-> "null", n |-> 0]

Frag(k, x, y) == [k |-> k, x |-> x, y |-> y]
NL == Frag("nl", Nil, Nil)            \* "\n"
CR == Frag("cr", Nil, Nil)            \* "\r" (whitespace)
BadByte == Frag("badbyte", Nil, Nil)  \* a byte that is not valid UTF-8
Banner == Frag("banner", Nil, Nil)    \* === Arduino Started ===
JsonList == Frag("list", Nil, Nil)    \* [1, 2]: valid JSON, not an object
Obj(x, y) == Frag("obj", x, y)        \* {"x": x, "y": y}
ObjX(x) == Frag("objx", x, Nil)       \* {"x": x}

IsSpace(f) == f.k = "cr"

\* chunk.decode('utf-8', errors='ignore')
Decode(chunk) == SelectSeq(chunk, LAMBDA f : f.k # "badbyte")

\* "\n" in buffer
HasNewline(buf) == \E i \in 1..Len(buf) : buf[i] = NL

\* buf.find("\n"), counted from 1; past the end when there is none
RECURSIVE FirstNewline(_)
FirstNewline(buf) == IF buf = <<>> \/ Head(buf) = NL THEN 1
                     ELSE 1 + FirstNewline(Tail(buf))

\* buffer.split("\n", 1)
SplitLine(buf) == LET i == FirstNewline(buf)
                  IN  [line |-> SubSeq(buf, 1, i - 1),
                       rest |-> SubSeq(buf, i + 1, Len(buf))]

RECURSIVE LStrip(_)
LStrip(s) == IF s # <<>> /\ IsSpace(Head(s)) THEN LStrip(Tail(s)) ELSE s

RECURSIVE RStrip(_)
RStrip(s) == IF s # <<>> /\ IsSpace(s[Len(s)])
             THEN RStrip(SubSeq(s, 1, Len(s) - 1)) ELSE s

\* line.strip()
Strip(s) == RStrip(LStrip(s))

\* json.loads(line): whitespace between JSON tokens is insignificant
JsonLoads(line) ==
    LET body == SelectSeq(line, LAMBDA f : ~IsSpace(f))
    IN  IF Len(body) = 1 /\ body[1].k = "obj"
        THEN [ok |-> TRUE, dict |-> TRUE, hasx |-> TRUE, hasy |-> TRUE,
              x |-> body[1].x, y |-> body[1].y]
        ELSE IF Len(body) = 1 /\ body[1].k = "objx"
        THEN [ok |-> TRUE, dict |-> TRUE, hasx |-> TRUE, hasy |-> FALSE,
              x |-> body[1].x, y |-> Nil]
        ELSE IF Len(body) = 1 /\ body[1].k = "list"
        THEN [ok |-> TRUE, dict |-> FALSE, hasx |-> FALSE, hasy |-> FALSE,
              x |-> Nil, y |-> Nil]
        ELSE [ok |-> FALSE, dict |-> FALSE, hasx |-> FALSE, hasy |-> FALSE,
              x |-> Nil, y |-> Nil]       \* json.JSONDecodeError

\* int(v): truncates a float toward zero, parses a digit string, raises
\* ValueError / TypeError on anything else
IntOk(v) == v.t \in {"int", "float", "numstr"}
IntOf(v) == IF v.t = "float"
            THEN (IF v.n >= 0 THEN v.n \div 10 ELSE -((-v.n) \div 10))
            ELSE v.n

\* ParseLine putting int(obj['y']) before int(obj['x'])
ParseLine_swapped(line) ==
    LET obj == JsonLoads(line)
    IN  IF ~obj.ok THEN [r |-> "skip", x |-> 0, y |-> 0]
        ELSE IF ~(obj.dict /\ obj.hasx /\ obj.hasy) THEN [r |-> "skip", x |-> 0, y |-> 0]
        ELSE IF ~IntOk(obj.x) \/ ~IntOk(obj.y) THEN [r |-> "raise", x |-> 0, y |-> 0]
        ELSE [r |-> "put", x |-> IntOf(obj.y), y |-> IntOf(obj.x)]

\* ParseLine without the except json.JSONDecodeError of line 142: a line
\* that is no JSON raises like a failing int()
ParseLine_nocatch(line) ==
    LET obj == JsonLoads(line)
    IN  IF ~obj.ok THEN [r |-> "raise", x |-> 0, y |-> 0]
        ELSE IF ~(obj.dict /\ obj.hasx /\ obj.hasy) THEN [r |-> "skip", x |-> 0, y |-> 0]
        ELSE IF ~IntOk(obj.x) \/ ~IntOk(obj.y) THEN [r |-> "raise", x |-> 0, y |-> 0]
        ELSE [r |-> "put", x |-> IntOf(obj.x), y |-> IntOf(obj.y)]

\* lines 135-143: what one stripped, non-empty line does
\*   "put": out_q.put(('joy', x, y));  "skip": nothing;  "raise": the
\*   exception of int() leaves the inner loop for the handler of line 145
ParseLine(line) ==
    LET obj == JsonLoads(line)
    IN  IF ~obj.ok THEN [r |-> "skip", x |-> 0, y |-> 0]
        ELSE IF ~(obj.dict /\ obj.hasx /\ obj.hasy) THEN [r |-> "skip", x |-> 0, y |-> 0]
        ELSE IF ~IntOk(obj.x) \/ ~IntOk(obj.y) THEN [r |-> "raise", x |-> 0, y |-> 0]
        ELSE [r |-> "put", x |-> IntOf(obj.x), y |-> IntOf(obj.y)]

Msg(x, y) == <<"joy", x, y>>

\* ------------------------------------------------------------------
\* character.py: control values
\* ------------------------------------------------------------------
Abs(n) == IF n < 0 THEN -n ELSE n
Max(a, b) == IF a >= b THEN a ELSE b
Min(a, b) == IF a <= b THEN a ELSE b

\* NormAxis without the max(-1.0, min(1.0, ...)) of lines 280-281
NormAxis_noclamp(raw) ==
    LET c2 == 2 * raw - (ANALOG_MAX + ANALOG_MIN)
    IN  IF Abs(c2) < 2 * DEADZONE THEN 0 ELSE c2

\* lines 272-281 for one axis; the result is x_norm * (ANALOG_MAX - ANALOG_MIN).
\* c2 is twice the centred value, so |x| < DEADZONE is |c2| < 2 * DEADZONE and
\* x / ((ANALOG_MAX - ANALOG_MIN) / 2) is c2 / (ANALOG_MAX - ANALOG_MIN).
NormAxis(raw) ==
    LET span == ANALOG_MAX - ANALOG_MIN
        c2 == 2 * raw - (ANALOG_MAX + ANALOG_MIN)
        dz == IF Abs(c2) < 2 * DEADZONE THEN 0 ELSE c2
    IN  Max(-span, Min(span, dz))

\* lines 284-285, times CtrlUnit
JoyForward(y_raw) == -NormAxis(y_raw) * ((180 * SENSITIVITY_MOVE_NUM) \div SENSITIVITY_MOVE_DEN)
\* line 285 with the sign of line 284
JoyTurn_inverted(x_raw) == -NormAxis(x_raw) * ((180 * SENSITIVITY_ROT_NUM) \div SENSITIVITY_ROT_DEN)
JoyTurn(x_raw) == NormAxis(x_raw) * ((180 * SENSITIVITY_ROT_NUM) \div SENSITIVITY_ROT_DEN)

Keys == {"w", "s", "q", "e"}

\* lines 297-305, times CtrlUnit: the control the held keys stand for
KeyForward(held) == ((IF "w" \in held THEN 1 ELSE 0) - (IF "s" \in held THEN 1 ELSE 0)) * CtrlUnit
KeyTurn(held) == ((IF "q" \in held THEN 1 ELSE 0) - (IF "e" \in held THEN 1 ELSE 0))
                 * ROT_SPEED * (CtrlUnit \div 180)

\* ------------------------------------------------------------------
\* character.py: environment
\* ------------------------------------------------------------------
\* SERIAL_PORT (BT_COM_PORT) and the ports comports() lists, each port as
\* [device, bt]: bt says that its name matches bluetooth / hc-05 / hc-06
ConfiguredPorts == {"None", "COM5"}
PortLists == { <<>>,
               << [device |-> "COM3", bt |-> FALSE] >>,
               << [device |-> "COM3", bt |-> FALSE], [device |-> "COM7", bt |-> TRUE] >> }

\* find_serial_port()
find_serial_port(configured, available, ports) ==
    IF configured # "None" THEN configured
    ELSE IF ~available THEN "None"
    ELSE IF \E i \in 1..Len(ports) : ports[i].bt
    THEN ports[CHOOSE i \in 1..Len(ports) :
                  ports[i].bt /\ \A j \in 1..(i - 1) : ~ports[j].bt].device
    ELSE IF ports # <<>> THEN ports[1].device
    ELSE "None"

\* the lines a device sends, without the terminating "\n"
SampleLines ==
    { <<Obj(JInt(512), JInt(512)), CR>>,     \* {"x": 512, "y": 512}\r
      <<BadByte, Obj(JInt(1023), JInt(0))>> }    \* a stray byte 0xff, {"x": 1023, "y": 0}
NoiseLines ==
    { <<Banner>>,                            \* === Arduino Started ===
      <<Obj(JStr, JInt(512))>> }             \* {"x": "abc", "y": 512}
DeviceLines == SampleLines \cup NoiseLines

\* ------------------------------------------------------------------
\* character.py: initial state (module loaded, Game() not yet constructed)
\* ------------------------------------------------------------------
InitChar ==
    /\ serial_available \in BOOLEAN
    /\ wire = <<>>
    /\ sentLines = <<>>
    /\ lineOpen = FALSE
    /\ rpc = "none"
    /\ r_running = TRUE
    /\ ser = "none"
    /\ connected = FALSE
    /\ buffer = <<>>
    /\ fpc = "ctor"
    /\ running = FALSE
    /\ serial_port = "None"
    /\ has_thread = FALSE
    /\ bt_connected = FALSE
    /\ forward = 0
    /\ turn = 0
    /\ last_joy = <<512, 512>>
    /\ q = <<>>
    /\ keys = {}
    /\ enq = <<>>
    /\ applied = <<>>
    /\ drainStart = <<0, 0>>
    /\ afterStop = <<>>

envVars == <<serial_available, wire, sentLines, lineOpen>>
readerVars == <<rpc, r_running, ser, connected, buffer>>
gameVars == <<fpc, running, serial_port, has_thread, bt_connected, forward, turn,
              last_joy, keys, applied, drainStart>>

\* the process is alive: daemon threads end with the interpreter
Alive == fpc # "exited"

\* ------------------------------------------------------------------
\* character.py: the device
\* ------------------------------------------------------------------
\* the text of a line, one of lines, arrives at the port
DeviceSendOf(lines) ==
    /\ Alive
    /\ ser = "open"
    /\ ~lineOpen
    /\ Len(sentLines) < MaxLines
    /\ \E l \in lines :
         /\ wire' = wire \o l
         /\ sentLines' = Append(sentLines, l)
    /\ lineOpen' = TRUE
    /\ UNCHANGED exceptChar
    /\ UNCHANGED <<serial_available, readerVars, gameVars, q, enq, afterStop>>

\* the "\n" that ends the line arrives
DeviceNewline ==
    /\ Alive
    /\ ser = "open"
    /\ lineOpen
    /\ wire' = Append(wire, NL)
    /\ lineOpen' = FALSE
    /\ UNCHANGED exceptChar
    /\ UNCHANGED <<serial_available, sentLines, readerVars, gameVars, q, enq, afterStop>>

\* a device that sends samples only, and one that also sends other text
DeviceSend == DeviceSendOf(SampleLines)
DeviceSendAny == DeviceSendOf(DeviceLines)
\* a device that sends one sample or one line that is no sample
DeviceSendTwo == DeviceSendOf({ <<Obj(JInt(512), JInt(512)), CR>>, <<Obj(JStr, JInt(512))>> })

\* ------------------------------------------------------------------
\* character.py: SerialReader.run, one action per step of the thread.
\* Steps that touch nothing the foreground or the device shares (the exit
\* of the inner loop) are taken together with the step before them.
\* ------------------------------------------------------------------
\* lines 96-112: the guard and serial.Serial(port, baud, timeout=0.1)
ReaderOpen ==
    /\ Alive
    /\ rpc = "start"
    /\ IF ~serial_available \/ serial_port = "None"
       THEN /\ rpc' = "done"
            /\ UNCHANGED <<ser, connected>>
       ELSE \E opens \in BOOLEAN :
              IF opens
              THEN /\ ser' = "open"
                   /\ connected' = TRUE
                   /\ rpc' = "loop"
              ELSE /\ rpc' = "done"
                   /\ UNCHANGED <<ser, connected>>
    /\ buffer' = <<>>
    /\ UNCHANGED exceptChar
    /\ UNCHANGED <<envVars, r_running, gameVars, q, enq, afterStop>>

\* line 115 with while True: the loop test ignores self.running
ReaderLoopTest_forever ==
    /\ Alive
    /\ rpc = "loop"
    /\ rpc' = "read"
    /\ UNCHANGED exceptChar
    /\ UNCHANGED <<envVars, r_running, ser, connected, buffer,
                   gameVars, q, enq, afterStop>>

\* line 115: while self.running
ReaderLoopTest ==
    /\ Alive
    /\ rpc = "loop"
    /\ rpc' = IF r_running THEN "read" ELSE "close"
    /\ UNCHANGED exceptChar
    /\ UNCHANGED <<envVars, r_running, ser, connected, buffer,
                   gameVars, q, enq, afterStop>>

\* line 128: while "\n" in buffer
AfterLine(buf) == IF HasNewline(buf) THEN "lines" ELSE "loop"

\* lines 117-126: chunk = self.ser.read(256) returns what has arrived (the
\* lines of a bounded run stay below 256 bytes); an empty chunk (timeout)
\* goes back to the loop test, a read that raises goes to the handler of
\* line 145
Noted(log, outcome) == IF r_running \/ Len(log) >= 2 THEN log ELSE Append(log, outcome)

ReaderRead ==
    /\ Alive
    /\ rpc = "read"
    /\ \/ /\ wire = <<>>
          /\ rpc' = "loop"
          /\ afterStop' = Noted(afterStop, "empty")
          /\ UNCHANGED <<wire, buffer>>
       \/ /\ wire # <<>>
          /\ buffer' = buffer \o Decode(wire)
          /\ wire' = <<>>
          /\ rpc' = AfterLine(buffer')
          /\ afterStop' = Noted(afterStop, "data")
       \/ /\ rpc' = "except"
          /\ afterStop' = Noted(afterStop, "raised")
          /\ UNCHANGED <<wire, buffer>>
    /\ UNCHANGED exceptChar
    /\ UNCHANGED <<serial_available, sentLines, lineOpen, r_running, ser, connected, gameVars,
                   q, enq>>

\* lines 131-143: what a stripped line puts on the queue, and whether it
\* raises; a blank line is skipped
LinePuts(line) ==
    IF line # <<>> /\ ParseLine(line).r = "put"
    THEN << Msg(ParseLine(line).x, ParseLine(line).y) >> ELSE <<>>
LineRaises(line) == line # <<>> /\ ParseLine(line).r = "raise"

\* lines 129-143: one iteration of the inner loop; the exception of int()
\* leaves the loop for the handler of line 145
ReaderLine ==
    /\ Alive
    /\ rpc = "lines"
    /\ \E parts \in {SplitLine(buffer)} :
       \E line \in {Strip(parts.line)} :
         /\ buffer' = parts.rest
         /\ q' = q \o LinePuts(line)
         /\ enq' = enq \o LinePuts(line)
         /\ rpc' = IF LineRaises(line) THEN "except" ELSE AfterLine(parts.rest)
    /\ UNCHANGED exceptChar
    /\ UNCHANGED <<envVars, r_running, ser, connected, gameVars, afterStop>>

\* lines 145-148: except Exception: print, time.sleep(0.2), back to line 115
ReaderExcept ==
    /\ Alive
    /\ rpc = "except"
    /\ rpc' = "loop"
    /\ UNCHANGED exceptChar
    /\ UNCHANGED <<envVars, r_running, ser, connected, buffer,
                   gameVars, q, enq, afterStop>>

\* lines 150-152: if self.ser: self.ser.close()
ReaderClose ==
    /\ Alive
    /\ rpc = "close"
    /\ ser' = IF ser = "none" THEN "none" ELSE "closed"
    /\ rpc' = "done"
    /\ UNCHANGED exceptChar
    /\ UNCHANGED <<envVars, r_running, connected, buffer,
                   gameVars, q, enq, afterStop>>

Reader == ReaderOpen \/ ReaderLoopTest \/ ReaderRead \/ ReaderLine \/ ReaderExcept
          \/ ReaderClose

\* ------------------------------------------------------------------
\* character.py: Game, one action per step of the foreground.  Steps that
\* touch neither the queue nor the reader are taken together.
\* ------------------------------------------------------------------

\* lines 243-251 and 254-260: find the port, start the reader thread
GameInit ==
    /\ fpc = "ctor"
    /\ \E configured \in ConfiguredPorts, ports \in PortLists :
         serial_port' = find_serial_port(configured, serial_available, ports)
    /\ IF serial_port' # "None" /\ serial_available
       THEN /\ has_thread' = TRUE
            /\ rpc' = "start"
            /\ fpc' = "sleep"
            /\ UNCHANGED running
       ELSE /\ fpc' = "loop"
            /\ running' = TRUE
            /\ UNCHANGED <<has_thread, rpc>>
    /\ UNCHANGED exceptChar
    /\ UNCHANGED <<envVars, r_running, ser, connected, buffer, bt_connected,
                   forward, turn, last_joy, q, keys, enq, applied, drainStart,
                   afterStop>>

\* lines 252-253 and 413-414: after time.sleep(0.5),
\* bt_connected = serial_thread.connected; then run() sets running
GameInitConnected ==
    /\ fpc = "sleep"
    /\ bt_connected' = connected
    /\ running' = TRUE
    /\ fpc' = "loop"
    /\ UNCHANGED exceptChar
    /\ UNCHANGED <<envVars, readerVars, serial_port, has_thread, forward, turn,
                   last_joy, q, keys, enq, applied, drainStart, afterStop>>

Events == {"none", "quit", "escape", "space"}
HeldKeys == { {}, {"w"}, {"s", "q"} }

\* lines 416-422, 291-318 and 320-322: a frame starts; handle_input with the
\* keys held and the event pending; update() enters handle_serial_messages()
HandleInput(heldSets, events) ==
    /\ fpc = "loop"
    /\ running
    /\ \E held \in heldSets, ev \in events :
         /\ keys' = held
         /\ IF ~(forward # 0 \/ turn # 0)
            THEN /\ forward' = KeyForward(held)
                 /\ turn' = KeyTurn(held)
            ELSE UNCHANGED <<forward, turn>>
         /\ running' = IF ev \in {"quit", "escape"} THEN FALSE ELSE running
    /\ drainStart' = <<Len(enq), Len(applied)>>
    /\ fpc' = "drain"
    /\ UNCHANGED exceptChar
    /\ UNCHANGED <<envVars, readerVars, serial_port, has_thread, bt_connected, last_joy,
                   q, enq, applied, afterStop>>

\* a user at the keyboard, and one who only closes the window
handle_input == HandleInput(HeldKeys, Events)
handle_input_nokeys == HandleInput({{}}, {"none", "quit"})

\* lines 264-285 without lines 287-289: the status is not set
handle_serial_messages_nostatus ==
    /\ fpc = "drain"
    /\ q # <<>>
    /\ LET msg == Head(q)
       IN  /\ q' = Tail(q)
           /\ last_joy' = <<msg[2], msg[3]>>
           /\ forward' = JoyForward(msg[3])
           /\ turn' = JoyTurn(msg[2])
           /\ applied' = Append(applied, msg)
    /\ UNCHANGED exceptChar
    /\ UNCHANGED <<envVars, readerVars, fpc, running, serial_port, has_thread, keys, enq,
                   bt_connected, drainStart, afterStop>>

\* lines 264-289 with if in place of while: one message a frame
handle_serial_messages_once ==
    /\ fpc = "drain"
    /\ q # <<>>
    /\ LET msg == Head(q)
       IN  /\ q' = Tail(q)
           /\ last_joy' = <<msg[2], msg[3]>>
           /\ forward' = JoyForward(msg[3])
           /\ turn' = JoyTurn(msg[2])
           /\ bt_connected' = TRUE
           /\ applied' = Append(applied, msg)
    /\ fpc' = "framed"
    /\ UNCHANGED exceptChar
    /\ UNCHANGED <<envVars, readerVars, running, serial_port, has_thread, keys, enq,
                   drainStart, afterStop>>

\* lines 264-289: one iteration of while not self.q.empty()
handle_serial_messages ==
    /\ fpc = "drain"
    /\ q # <<>>
    /\ LET msg == Head(q)
       IN  /\ q' = Tail(q)
           /\ last_joy' = <<msg[2], msg[3]>>
           /\ forward' = JoyForward(msg[3])
           /\ turn' = JoyTurn(msg[2])
           /\ bt_connected' = TRUE
           /\ applied' = Append(applied, msg)
    /\ UNCHANGED exceptChar
    /\ UNCHANGED <<envVars, readerVars, fpc, running, serial_port, has_thread, keys, enq,
                   drainStart, afterStop>>

\* lines 264, 324-345 and 424-426: the queue is empty; the motion update
\* with (forward, turn), draw, tick
update ==
    /\ fpc = "drain"
    /\ q = <<>>
    /\ fpc' = "framed"
    /\ UNCHANGED exceptChar
    /\ UNCHANGED <<envVars, readerVars, running, serial_port, has_thread, bt_connected,
                   forward, turn, last_joy, q, keys, enq, applied, drainStart,
                   afterStop>>

\* line 416: while self.running, after a frame
RunLoopTest ==
    /\ fpc = "framed"
    /\ fpc' = IF running THEN "loop" ELSE "stop"
    /\ keys' = {}
    /\ drainStart' = <<0, 0>>
    /\ UNCHANGED exceptChar
    /\ UNCHANGED <<envVars, readerVars, running, serial_port, has_thread, bt_connected,
                   forward, turn, last_joy, q, enq, applied, afterStop>>

\* lines 428-429 and 154-155: serial_thread.stop()
RunStop ==
    /\ fpc = "stop"
    /\ r_running' = IF has_thread THEN FALSE ELSE r_running
    /\ fpc' = "quit"
    /\ UNCHANGED exceptChar
    /\ UNCHANGED <<envVars, rpc, ser, connected, buffer, running, serial_port, has_thread,
                   bt_connected, forward, turn, last_joy, q, keys, enq, applied,
                   drainStart, afterStop>>

\* line 430 and the end of the script: pygame.quit(), the process exits
RunQuit ==
    /\ fpc = "quit"
    /\ fpc' = "exited"
    /\ UNCHANGED exceptChar
    /\ UNCHANGED <<envVars, readerVars, running, serial_port, has_thread, bt_connected,
                   forward, turn, last_joy, q, keys, enq, applied, drainStart,
                   afterStop>>

GameRest == GameInit \/ GameInitConnected \/ handle_serial_messages \/ update
            \/ RunLoopTest \/ RunStop \/ RunQuit

\* ------------------------------------------------------------------
\* joystick_game.py: a line of the device is bytes that decode or do not,
\* and, decoded and stripped, comma-separated fields; a field is [t, n]:
\* the decimal digits of n, a minus sign and digits, a digit character that
\* is no decimal digit (such as a superscript two), or other text.
\* ------------------------------------------------------------------
win_width == 800
win_height == 600
character_size == 50
character_speed == 5
JoyCentre == 512
JoyStep == 100

Unbound == <<>>     \* joy_x, joy_y, button_state before their first assignment

Purple == <<106, 13, 173>>
Blue == <<0, 0, 255>>
Red == <<255, 0, 0>>

\* lines 23-24: prev_x, prev_y are set once, before the loop
prev_x == win_width \div 2
prev_y == win_height \div 2

Digits(n) == [t |-> "digits", n |-> n]
Minus(n) == [t |-> "minus", n |-> n]
SuperDigit == [t |-> "super", n |-> 2]
Word == [t |-> "word", n |-> 0]

JoyLine(decodes, fields) == [decodes |-> decodes, fields |-> fields]

\* d.isdigit()
IsDigit(f) == f.t \in {"digits", "super"}

\* int(d) succeeds
JoyIntOk(f) == f.t \in {"digits", "minus"}
JoyIntOf(f) == IF f.t = "minus" THEN -f.n ELSE f.n

\* lines 32-36: what ser.readline().decode().strip() and the test of line 35
\* make of a line: "sample" with its three integers, "ignored", or "raised"
\* (UnicodeDecodeError of decode(), ValueError of int())
ReadSample(line) ==
    IF ~line.decodes THEN [r |-> "raised", v |-> Unbound]
    ELSE IF line.fields = <<>> THEN [r |-> "ignored", v |-> Unbound]
    ELSE IF ~(Len(line.fields) = 3 /\ \A i \in 1..3 : IsDigit(line.fields[i]))
    THEN [r |-> "ignored", v |-> Unbound]
    ELSE IF \E i \in 1..3 : ~JoyIntOk(line.fields[i])
    THEN [r |-> "raised", v |-> Unbound]
    ELSE [r |-> "sample", v |-> << JoyIntOf(line.fields[1]), JoyIntOf(line.fields[2]),
                                   JoyIntOf(line.fields[3]) >>]

\* lines 40-41 and 58-59: (joy - 512) // 100 * character_speed
Displacement(raw) == ((raw - JoyCentre) \div JoyStep) * character_speed

\* the clamp without its lower limit
ClampTo_nofloor(limit, v) == Min(limit - character_size \div 2, v)

\* lines 44-45 and 62-63
ClampTo(limit, v) == Max(character_size \div 2, Min(limit - character_size \div 2, v))

\* lines 40-48 and 58-67: the position after the sample v at position <<x, y>>
MovedBy(v, x, y) ==
    LET new_x == ClampTo(win_width, x + Displacement(v[1]))
        new_y == ClampTo(win_height, y + Displacement(v[2]))
    IN  IF <<new_x, new_y>> # <<prev_x, prev_y>> THEN <<new_x, new_y>> ELSE <<x, y>>

\* the lines a device sends
JoyLines ==
    { JoyLine(TRUE, <<Digits(512), Digits(512), Digits(0)>>),    \* 512,512,0
      JoyLine(TRUE, <<Digits(1023), Digits(0), Digits(1)>>),     \* 1023,0,1
      JoyLine(TRUE, <<Digits(1023), Digits(512), Digits(0)>>),   \* 1023,512,0
      JoyLine(TRUE, <<Digits(100), Digits(512), Digits(0)>>),    \* 100,512,0
      JoyLine(TRUE, <<Digits(512), SuperDigit, Digits(0)>>),     \* isdigit, no int
      JoyLine(TRUE, <<Digits(512), Minus(3), Digits(0)>>),       \* 512,-3,0
      JoyLine(TRUE, <<Word>>),                                   \* other text
      JoyLine(TRUE, <<>>),                                       \* a blank line
      JoyLine(FALSE, <<>>) }                                     \* not UTF-8

\* lines 1-24: the script before serial.Serial(arduino_port, 9600)
InitJoy ==
    /\ jg_pc = "open"
    /\ jg_running = TRUE
    /\ jg_quit = FALSE
    /\ jg_wire = <<>>
    /\ jg_sent = 0
    /\ jg_fault = FALSE
    /\ character_x = win_width \div 2
    /\ character_y = win_height \div 2
    /\ character_color = Purple
    /\ joy = Unbound

\* line 19: serial.Serial(arduino_port, 9600), outside any try
JoyOpen ==
    /\ jg_pc = "open"
    /\ \E opens \in BOOLEAN : jg_pc' = IF opens THEN "loop" ELSE "openfailed"
    /\ UNCHANGED <<jg_running, jg_quit, jg_wire, jg_sent, jg_fault,
                   character_x, character_y, character_color, joy>>
    /\ UNCHANGED exceptJoy

JoyLive == jg_pc \in {"loop", "read"}

\* the device sends a line
JoyDeviceSend ==
    /\ JoyLive
    /\ ~jg_fault
    /\ jg_sent < MaxJoyLines
    /\ \E l \in JoyLines : jg_wire' = Append(jg_wire, l)
    /\ jg_sent' = jg_sent + 1
    /\ UNCHANGED <<jg_pc, jg_running, jg_quit, jg_fault,
                   character_x, character_y, character_color, joy>>
    /\ UNCHANGED exceptJoy

\* the port fails (the device is unplugged): from now on a read raises
JoyDeviceFault ==
    /\ JoyLive
    /\ ~jg_fault
    /\ jg_fault' = TRUE
    /\ UNCHANGED <<jg_pc, jg_running, jg_quit, jg_wire, jg_sent,
                   character_x, character_y, character_color, joy>>
    /\ UNCHANGED exceptJoy

\* the user closes the window
JoyUserClose ==
    /\ JoyLive
    /\ jg_running
    /\ ~jg_quit
    /\ jg_quit' = TRUE
    /\ UNCHANGED <<jg_pc, jg_running, jg_wire, jg_sent, jg_fault,
                   character_x, character_y, character_color, joy>>
    /\ UNCHANGED exceptJoy

\* lines 26-29 and 76-78: while running, the pending events; after the loop
\* ser.close() and pygame.quit()
JoyFrameStart ==
    /\ jg_pc = "loop"
    /\ IF jg_running
       THEN /\ jg_running' = ~jg_quit
            /\ jg_quit' = FALSE
            /\ jg_pc' = "read"
       ELSE /\ jg_pc' = "closed"
            /\ UNCHANGED <<jg_running, jg_quit>>
    /\ UNCHANGED <<jg_wire, jg_sent, jg_fault,
                   character_x, character_y, character_color, joy>>
    /\ UNCHANGED exceptJoy

\* lines 53-70: the handler; joy_x of line 58, unbound before the first valid
\* sample, raises NameError out of the handler and out of the script
JoyExcept ==
    IF joy = Unbound
    THEN /\ jg_pc' = "uncaught"
         /\ UNCHANGED <<character_x, character_y, character_color>>
    ELSE /\ character_x' = MovedBy(joy, character_x, character_y)[1]
         /\ character_y' = MovedBy(joy, character_x, character_y)[2]
         /\ character_color' = IF joy[3] = 1 THEN Blue ELSE Purple
         /\ jg_pc' = "loop"

\* lines 31-51 and 72-74: ser.readline() has no timeout and returns when a
\* whole line has arrived; then the frame is drawn
JoyRead ==
    /\ jg_pc = "read"
    /\ \/ /\ jg_fault
          /\ JoyExcept
          /\ UNCHANGED <<jg_wire, joy>>
       \/ /\ ~jg_fault
          /\ jg_wire # <<>>
          /\ jg_wire' = Tail(jg_wire)
          /\ \E s \in {ReadSample(Head(jg_wire))} :
               IF s.r = "sample"
               THEN /\ joy' = s.v
                    /\ character_x' = MovedBy(s.v, character_x, character_y)[1]
                    /\ character_y' = MovedBy(s.v, character_x, character_y)[2]
                    /\ character_color' = IF s.v[3] = 0 THEN Blue ELSE Red
                    /\ jg_pc' = "loop"
               ELSE IF s.r = "ignored"
               THEN /\ jg_pc' = "loop"
                    /\ UNCHANGED <<joy, character_x, character_y, character_color>>
               ELSE /\ JoyExcept
                    /\ UNCHANGED joy
    /\ UNCHANGED <<jg_running, jg_quit, jg_sent, jg_fault>>
    /\ UNCHANGED exceptJoy

JoyScript == JoyOpen \/ JoyFrameStart \/ JoyRead

\* ------------------------------------------------------------------
\* joystick-bluetooth/joystick/game.py: a line is ";"-separated parts, a
\* part is "="-separated pieces, a piece is one of the names X and Y, the
\* decimal text of an integer, or other text.  self.x and self.y are
\* floats with 512ths; they are kept as integers, times CubeUnit.
\* ------------------------------------------------------------------
CubeUnit == 512
CubeCentre == 512
CubeSpeed == 3
CubeStartX == 400
CubeStartY == 300

PieceName(s) == [t |-> "name", s |-> s, n |-> 0]
PieceInt(n) == [t |-> "int", s |-> "", n |-> n]
PieceWord == [t |-> "word", s |-> "", n |-> 0]

\* tag + "=" in line
HasTag(line, tag) ==
    \E i \in 1..Len(line) : \E j \in 1..(Len(line[i]) - 1) : line[i][j] = PieceName(tag)

\* line 45 and 46: int(parts[k].split("=")[1]) succeeds
PartIntOk(line, k) == Len(line) >= k /\ Len(line[k]) >= 2 /\ line[k][2].t = "int"

\* lines 49-58 for one axis: the summand of self.x, times CubeUnit;
\* abs(nx) < 0.1 is 10 * |val - 512| < 512
CubeDelta(val) ==
    IF 10 * Abs(val - CubeCentre) < CubeUnit THEN 0
    ELSE (val - CubeCentre) * CubeSpeed * 10

\* lines 41-61: the position after readline() returned line
CubeMoved(line, pos) ==
    IF ~(HasTag(line, "X") /\ HasTag(line, "Y")) THEN pos
    ELSE IF ~(PartIntOk(line, 1) /\ PartIntOk(line, 2)) THEN pos     \* except: pass
    ELSE << pos[1] + CubeDelta(line[1][2].n), pos[2] + CubeDelta(line[2][2].n) >>

\* the lines a device sends
CubeLines ==
    { << <<PieceName("X"), PieceInt(1023)>>, <<PieceName("Y"), PieceInt(512)>> >>,
      << <<PieceName("X"), PieceInt(540)>>, <<PieceName("Y"), PieceInt(0)>> >>,
      << <<PieceName("Y"), PieceInt(0)>>, <<PieceName("X"), PieceInt(1023)>> >>,
      << <<PieceName("X"), PieceWord>>, <<PieceName("Y"), PieceInt(5)>> >>,
      << <<PieceName("X"), PieceInt(5)>> >>,
      << <<PieceWord>> >> }

\* comports(): each port as [device, named]; named says that its description
\* contains Bluetooth, HC-05 or Serial
CubePortLists ==
    { <<>>,
      << [device |-> "COM1", named |-> FALSE] >>,
      << [device |-> "COM1", named |-> FALSE], [device |-> "COM7", named |-> TRUE] >> }

\* the script before find_bluetooth_port()
InitCube ==
    /\ cg_pc = "start"
    /\ cg_running = FALSE
    /\ cg_quit = FALSE
    /\ cg_wire = <<>>
    /\ cg_sent = 0
    /\ cg_pos = <<CubeStartX * CubeUnit, CubeStartY * CubeUnit>>

\* lines 6-13, 27-35, 75-77 and 96-98: find_bluetooth_port() returns the open
\* port, or serial.Serial raises out of the script, or sys.exit(1)
find_bluetooth_port ==
    /\ cg_pc = "start"
    /\ \E ports \in CubePortLists, opens \in BOOLEAN :
         IF \E i \in 1..Len(ports) : ports[i].named
         THEN IF opens
              THEN /\ cg_pc' = "loop"
                   /\ cg_running' = TRUE
              ELSE /\ cg_pc' = "openfailed"
                   /\ UNCHANGED cg_running
         ELSE /\ cg_pc' = "sysexit"
              /\ UNCHANGED cg_running
    /\ UNCHANGED <<cg_quit, cg_wire, cg_sent, cg_pos>>
    /\ UNCHANGED exceptCube

\* the device sends a line
CubeDeviceSend ==
    /\ cg_pc = "loop"
    /\ cg_sent < MaxCubeLines
    /\ \E l \in CubeLines : cg_wire' = Append(cg_wire, l)
    /\ cg_sent' = cg_sent + 1
    /\ UNCHANGED <<cg_pc, cg_running, cg_quit, cg_pos>>
    /\ UNCHANGED exceptCube

\* the user closes the window
CubeUserClose ==
    /\ cg_pc = "loop"
    /\ cg_running
    /\ ~cg_quit
    /\ cg_quit' = TRUE
    /\ UNCHANGED <<cg_pc, cg_running, cg_wire, cg_sent, cg_pos>>
    /\ UNCHANGED exceptCube

\* lines 37-61: read_joystick(); nothing waiting returns at once
read_joystick ==
    IF cg_wire = <<>>
    THEN UNCHANGED <<cg_wire, cg_pos>>
    ELSE /\ cg_wire' = Tail(cg_wire)
         /\ cg_pos' = CubeMoved(Head(cg_wire), cg_pos)

\* lines 78-89: one frame
CubeFrame ==
    /\ cg_pc = "loop"
    /\ cg_running
    /\ cg_running' = ~cg_quit
    /\ cg_quit' = FALSE
    /\ read_joystick
    /\ UNCHANGED <<cg_pc, cg_sent>>
    /\ UNCHANGED exceptCube

\* lines 78 and 91-92: the loop ends; pygame.quit(), self.ser.close()
CubeEnd ==
    /\ cg_pc = "loop"
    /\ ~cg_running
    /\ cg_pc' = "closed"
    /\ UNCHANGED <<cg_running, cg_quit, cg_wire, cg_sent, cg_pos>>
    /\ UNCHANGED exceptCube

CubeScript == find_bluetooth_port \/ CubeFrame \/ CubeEnd

\* ------------------------------------------------------------------
\* The axis arithmetic applied to one raw sample <<ax_x, ax_y>>: the
\* normalisation and the line parsing of character.py, the displacement of
\* joystick_game.py.
\* ------------------------------------------------------------------
AxisValues == (ANALOG_MIN - MaxOver)..(ANALOG_MAX + MaxOver)

\* the second axis: the mirror image of the first about the centre, its
\* upper neighbour, the centre, and values far out of range
SecondValues(x) == {2 * JoyCentre - x, x + 1, JoyCentre, -70000, 70000}

\* no sample under computation (the scripts' own specifications)
IdleAxis ==
    /\ ax_pc = "idle"
    /\ ax_x = JoyCentre
    /\ ax_y = JoyCentre
    /\ ax_norm = <<>>
    /\ ax_puts = <<>>
    /\ ax_ctl = <<>>
    /\ ax_disp = <<>>

\* a raw sample, nothing computed yet
InitAxis ==
    /\ ax_pc = "in"
    /\ ax_x \in AxisValues
    /\ ax_y \in SecondValues(ax_x)
    /\ ax_norm = <<>>
    /\ ax_puts = <<>>
    /\ ax_ctl = <<>>
    /\ ax_disp = <<>>

\* character.py lines 267-281: x_norm and y_norm of the message
AxisNormalize ==
    /\ ax_pc = "in"
    /\ ax_pc' = "normalized"
    /\ ax_norm' = <<NormAxis(ax_x), NormAxis(ax_y)>>
    /\ UNCHANGED <<ax_x, ax_y, ax_puts, ax_ctl, ax_disp>>
    /\ UNCHANGED exceptAxis

\* character.py lines 117-138 and 266-285: the device prints the line
\* {"x": ax_x, "y": ax_y}\r\n; the reader decodes, splits, strips and parses
\* it; handle_serial_messages turns what was put into forward and turn
AxisRoundTrip ==
    /\ ax_pc = "in"
    /\ ax_pc' = "parsed"
    /\ \E parts \in {SplitLine(Decode(<<Obj(JInt(ax_x), JInt(ax_y)), CR, NL>>))} :
       \E puts \in {LinePuts(Strip(parts.line))} :
         /\ ax_puts' = puts
         /\ ax_ctl' = IF puts = <<>> THEN <<0, 0>>
                      ELSE <<JoyForward(puts[Len(puts)][3]), JoyTurn(puts[Len(puts)][2])>>
    /\ UNCHANGED <<ax_x, ax_y, ax_norm, ax_disp>>
    /\ UNCHANGED exceptAxis

\* joystick_game.py lines 35-41: the displacement of both axes; only
\* fields of digits come this far, so no value is negative
AxisDisplace ==
    /\ ax_pc = "in"
    /\ ax_x >= 0
    /\ ax_y >= 0
    /\ ax_pc' = "displaced"
    /\ ax_disp' = <<Displacement(ax_x), Displacement(ax_y)>>
    /\ UNCHANGED <<ax_x, ax_y, ax_norm, ax_puts, ax_ctl>>
    /\ UNCHANGED exceptAxis

\* ------------------------------------------------------------------
\* character.py: the foreground alone, one frame a step, with the motion
\* update.  The reader thread is left out: what it has put on the queue
\* when a frame drains it is an input of the frame.  Time is counted in
\* 1/FPS seconds, player_yaw and distances times CtrlUnit * FPS.
\* ------------------------------------------------------------------
\* line 420: 1/15 s
MaxDt == FPS \div 15

\* 1/5 s in place of 1/15 s
ClampDt_fifth(elapsed) == Max(0, Min(FPS \div 5, elapsed))

\* line 420: dt = max(0.0, min(1/15, dt))
ClampDt(elapsed) == Max(0, Min(MaxDt, elapsed))

\* lines 417-418: now - prev: a clock set back (-1 s), 1/60 s, 0.1 s, a stall of 5 s
ElapsedTimes == {-FPS, 1, FPS \div 10, 5 * FPS}

\* what the reader has put on the queue when a frame drains it
MotionSamples == { <<>>, <<Msg(1023, 512)>>, <<Msg(0, 512)>>, <<Msg(1023, 512), Msg(0, 512)>> }

MotionKeys == { {}, {"w", "q"} }

\* lines 264-285: the control after the samples have been applied
RECURSIVE Drained(_, _)
Drained(samples, ctl) ==
    IF samples = <<>> THEN ctl
    ELSE Drained(Tail(samples), <<JoyForward(Head(samples)[3]), JoyTurn(Head(samples)[2])>>)

\* lines 296-305: the control after handle_input
KeyControl(held, ctl) ==
    IF ~(ctl[1] # 0 \/ ctl[2] # 0) THEN <<KeyForward(held), KeyTurn(held)>> ELSE ctl

\* line 325: self.turn * ROT_SPEED * dt
YawStep(t, dt) == t * ROT_SPEED * dt

\* lines 328-333: the length of (dx, dz); sin^2 + cos^2 = 1
MoveStep(f, dt) == IF Abs(f) * 1000 > CtrlUnit THEN Abs(f) * FORWARD_SPEED * dt ELSE 0

\* no frame loop (the other specifications)
IdleMotion ==
    /\ mo_pc = "idle"
    /\ mo_forward = 0
    /\ mo_turn = 0
    /\ mo_yaw = 0
    /\ mo_elapsed = 0
    /\ mo_dt = 0
    /\ mo_dyaw = 0
    /\ mo_moved = 0
    /\ mo_applied = <<>>
    /\ mo_before = <<>>
    /\ mo_frames = 0

\* lines 229, 238-239 and 413-414: Game() constructed, run() before its loop
InitMotion ==
    /\ mo_pc = "run"
    /\ mo_forward = 0
    /\ mo_turn = 0
    /\ mo_yaw = 0
    /\ mo_elapsed = 0
    /\ mo_dt = 0
    /\ mo_dyaw = 0
    /\ mo_moved = 0
    /\ mo_applied = <<>>
    /\ mo_before = <<>>
    /\ mo_frames = 0

\* lines 416-426: one frame: dt, handle_input(dt), update(dt), draw, tick
MotionFrame ==
    /\ mo_pc = "run"
    /\ mo_frames < MaxFrames
    /\ \E elapsed \in ElapsedTimes, held \in MotionKeys, samples \in MotionSamples,
          ev \in {"none", "quit"} :
       \E dt \in {ClampDt(elapsed)} :
       \E ctl \in {Drained(samples, KeyControl(held, <<mo_forward, mo_turn>>))} :
         /\ mo_elapsed' = elapsed
         /\ mo_dt' = dt
         /\ mo_forward' = ctl[1]
         /\ mo_turn' = ctl[2]
         /\ mo_dyaw' = YawStep(ctl[2], dt)
         /\ mo_yaw' = mo_yaw + YawStep(ctl[2], dt)
         /\ mo_moved' = MoveStep(ctl[1], dt)
         /\ mo_applied' = samples
         /\ mo_pc' = IF ev = "quit" THEN "stopped" ELSE "run"
    /\ mo_before' = mo_applied
    /\ mo_frames' = mo_frames + 1
    /\ UNCHANGED exceptMotion

\* ------------------------------------------------------------------
\* specifications
\* ------------------------------------------------------------------
Init == InitChar /\ InitJoy /\ InitCube /\ IdleAxis /\ IdleMotion

\* the device sends samples, the user holds keys
Next == DeviceSend \/ DeviceNewline \/ Reader \/ handle_input \/ GameRest

Spec == Init /\ [][Next]_vars

\* the device sends samples and other text, the user holds no key
NextReader == DeviceSendAny \/ DeviceNewline \/ Reader \/ handle_input_nokeys \/ GameRest

SpecReader == Init /\ [][NextReader]_vars

\* the reader thread keeps being scheduled while the process lives
NextStop == DeviceSendTwo \/ DeviceNewline \/ Reader \/ handle_input_nokeys \/ GameRest

LiveReader == Init /\ [][NextStop]_vars /\ WF_vars(Reader)

\* joystick_game.py
NextJoy == JoyDeviceSend \/ JoyDeviceFault \/ JoyUserClose \/ JoyScript

SpecJoy == Init /\ [][NextJoy]_vars

\* the script keeps running; the device owes nothing
LiveJoy == SpecJoy /\ WF_vars(JoyScript)

\* joystick-bluetooth/joystick/game.py
NextCube == CubeDeviceSend \/ CubeUserClose \/ CubeScript

SpecCube == Init /\ [][NextCube]_vars

\* the axis arithmetic on one raw sample
InitOneSample == InitChar /\ InitJoy /\ InitCube /\ InitAxis /\ IdleMotion

NextAxis == AxisNormalize \/ AxisRoundTrip \/ AxisDisplace

SpecAxis == InitOneSample /\ [][NextAxis]_vars

\* the foreground of character.py with its motion
InitFrames == InitChar /\ InitJoy /\ InitCube /\ IdleAxis /\ InitMotion

NextMotion == MotionFrame

SpecMotion == InitFrames /\ [][NextMotion]_vars

\* ------------------------------------------------------------------
\* character.py: properties
\* ------------------------------------------------------------------
NewlineCount(text) == Cardinality({i \in 1..Len(text) : text[i] = NL})

\* the sample a line of SampleLines encodes, as the message it stands for
SampleOf(l) == LET o == SelectSeq(l, LAMBDA f : f.k = "obj")[1] IN Msg(o.x.n, o.y.n)

\* the messages the sample lines among lines stand for, in order
RECURSIVE Expected(_)
Expected(lines) ==
    IF lines = <<>> THEN <<>>
    ELSE (IF Head(lines) \in SampleLines THEN <<SampleOf(Head(lines))>> ELSE <<>>)
         \o Expected(Tail(lines))

\* the lines whose "\n" the reader has read, and those it has split off its buffer
ReceivedLines == SubSeq(sentLines, 1,
                        Len(sentLines) - (IF lineOpen THEN 1 ELSE 0) - NewlineCount(wire))
ProcessedLines == SubSeq(sentLines, 1, Len(ReceivedLines) - NewlineCount(buffer))

\* C1: every sample is either applied or still queued, in the order the
\* reader put it, none lost and none twice; and when a call of
\* handle_serial_messages has returned, every sample that was on the queue
\* when the call started has been applied.
C1_QueueHandoff ==
    /\ enq = applied \o q
    /\ fpc = "framed" => Len(applied) >= drainStart[1]

\* two samples queued when the call started, a third put while it ran
C1_Witness ==
    /\ fpc = "framed"
    /\ drainStart[1] >= drainStart[2] + 2
    /\ Len(enq) > drainStart[1]
    /\ applied[1] # applied[2]

\* C2: while the reader has put no sample, the control of the frame's motion
\* update is the one of the keys held in that frame.
C2_KeysDecideControl ==
    (fpc = "framed" /\ enq = <<>>)
        => (forward = KeyForward(keys) /\ turn = KeyTurn(keys))

\* C3: after a device sample, a frame in which no sample is dequeued takes
\* its control from the keys held in that frame.
C3_KeysWhenDeviceSilent ==
    (fpc = "framed" /\ applied # <<>> /\ Len(applied) = drainStart[2])
        => (forward = KeyForward(keys) /\ turn = KeyTurn(keys))

\* C4: the foreground does not exit while the serial handle is open.
C4_ExitAfterReaderClosed == fpc = "exited" => ser # "open"

\* C5: after stop() the reader begins at most one more device read, and,
\* scheduled as long as the process lives, closes the serial handle.
C5_StopEndsReader ==
    /\ [](Len(afterStop) <= 1)
    /\ (ser = "open" /\ ~r_running) ~> (ser = "closed" \/ ~Alive)

\* the one read after stop() raised, and the handle was closed
C5_Witness == ser = "closed" /\ afterStop = <<"raised">>

\* C6: the samples put are those of the sample lines split off the buffer,
\* one each and in order, and the step that takes a non-JSON line off the
\* buffer puts nothing and does not reach the exception handler.
BannerNext == rpc = "lines" /\ Strip(SplitLine(buffer).line) = <<Banner>>
C6_NonJsonIgnored ==
    /\ [](enq = Expected(ProcessedLines))
    /\ [][(BannerNext /\ buffer' # buffer) => (enq' = enq /\ rpc' # "except")]_vars

\* a sample line, the banner and a sample line, all processed
C6_Witness ==
    /\ Len(sentLines) = 3
    /\ sentLines[1] \in SampleLines
    /\ sentLines[2] = <<Banner>>
    /\ sentLines[3] \in SampleLines
    /\ ProcessedLines = sentLines
    /\ Len(enq) = 2

\* C7: when the reader goes back to read from the device, every complete
\* sample line it has received has been put on the queue.
C7_ReceivedLinesEnqueued == rpc = "read" => enq = Expected(ReceivedLines)

\* C21: whenever the reader goes back to read the next chunk from the device,
\* its line buffer holds no newline: only an incomplete trailing line is kept.
C21_BufferHoldsNoNewline == rpc = "read" => NewlineCount(buffer) = 0

\* C15: bt_connected, once true, is true in every later state, and it is
\* true in every state in which a device sample has been applied.
C15_ConnectedStays ==
    /\ [][bt_connected => bt_connected']_vars
    /\ [](applied # <<>> => bt_connected)

\* two samples applied, the status still true when the process has exited
C15_Witness == Len(applied) >= 2 /\ bt_connected /\ fpc = "exited"

\* C16: bt_connected is true only if the port has been opened and the
\* device has sent something.
C16_ConnectedNeedsData == bt_connected => (ser # "none" /\ sentLines # <<>>)

\* ------------------------------------------------------------------
\* joystick_game.py and game.py: properties
\* ------------------------------------------------------------------
\* C8: no read or decode error ends the frame loop of joystick_game.py with
\* an uncaught exception.
C8_InputErrorsHandled == jg_pc # "uncaught"

\* the step in which the read of a frame returns or raises
JoyReadStep == jg_pc = "read" /\ jg_pc' # "read"

\* C19: the frame whose read or decode fails changes neither the position
\* nor the colour of the character.
C19_FailedReadChangesNothing ==
    [][(JoyReadStep /\ (jg_fault \/ ReadSample(Head(jg_wire)).r = "raised"))
          => (character_x' = character_x /\ character_y' = character_y
              /\ character_color' = character_color)]_vars

\* C20: the frame that reads a valid sample puts the character at its
\* position plus the sample's displacement, clamped to the window.
C20_ValidSampleMoves ==
    [][(JoyReadStep /\ ~jg_fault /\ ReadSample(Head(jg_wire)).r = "sample")
          => (/\ character_x' = ClampTo(win_width,
                      character_x + Displacement(ReadSample(Head(jg_wire)).v[1]))
              /\ character_y' = ClampTo(win_height,
                      character_y + Displacement(ReadSample(Head(jg_wire)).v[2])))]_vars

\* C22: in every reachable state the character centre is inside the window:
\* 25 <= character_x <= 775 and 25 <= character_y <= 575.
C22_CentreInsideWindow ==
    /\ character_size \div 2 <= character_x
    /\ character_x <= win_width - character_size \div 2
    /\ character_size \div 2 <= character_y
    /\ character_y <= win_height - character_size \div 2

\* the handler has driven the character into the corner of the window, and
\* the next failing read would leave it without the clamp
C22_Witness ==
    /\ jg_fault
    /\ jg_pc = "read"
    /\ joy # Unbound
    /\ character_x = win_width - character_size \div 2
    /\ character_y = character_size \div 2
    /\ character_x + Displacement(joy[1]) > win_width - character_size \div 2
    /\ character_y + Displacement(joy[2]) < character_size \div 2

\* C9: while the device sends nothing, a frame that has come to its device
\* read gets past it, and a pending window-close event is handled.
C9_FrameLoopNeverWaits ==
    /\ (jg_pc = "read" /\ jg_sent = 0) ~> (jg_pc # "read" \/ jg_sent > 0)
    /\ (jg_quit /\ jg_sent = 0) ~> (~jg_quit \/ ~JoyLive \/ jg_sent > 0)

\* C10: the script does not end at startup for want of a device or a port
\* that opens.
C10_FallbackAtStartup == cg_pc \notin {"sysexit", "openfailed"}

\* ------------------------------------------------------------------
\* the axis arithmetic: properties
\* ------------------------------------------------------------------
Span == ANALOG_MAX - ANALOG_MIN

\* twice the distance of v from the midpoint 511.5
Off2(v) == Abs(2 * v - (ANALOG_MAX + ANALOG_MIN))
InRange(v) == ANALOG_MIN <= v /\ v <= ANALOG_MAX
InBand(v) == Off2(v) <= 2 * DEADZONE

\* C11: the normalized value of every integer raw value v is 0 when
\* |v - 511.5| <= 60, lies in [-1, 1], is -1 at 0 and +1 at 1023, and is
\* smaller than that of every larger in-range value outside the band when v
\* is in range and outside the band.
C11_NormalizedAxis ==
    ax_pc = "normalized" =>
        /\ InBand(ax_x) => ax_norm[1] = 0
        /\ -Span <= ax_norm[1] /\ ax_norm[1] <= Span
        /\ ax_x = ANALOG_MIN => ax_norm[1] = -Span
        /\ ax_x = ANALOG_MAX => ax_norm[1] = Span
        /\ (InRange(ax_x) /\ ~InBand(ax_x)) =>
               \A w \in ANALOG_MIN..ANALOG_MAX :
                   (~InBand(w) /\ ax_x < w) => ax_norm[1] < NormAxis(w)
        /\ (InRange(ax_x) /\ ~InBand(ax_x) /\ InRange(ax_y) /\ ~InBand(ax_y) /\ ax_x < ax_y)
               => ax_norm[1] < ax_norm[2]

\* a value beyond the range, normalized to the end of [-1, 1]
C11_Witness ==
    /\ ax_pc = "normalized"
    /\ ax_x = ANALOG_MAX + MaxOver
    /\ ax_y = ax_x + 1
    /\ ax_norm = <<Span, Span>>

\* C12: outside the deadzone the normalized value is (|c| - DEADZONE) /
\* (half the span - DEADZONE) with the sign of the centred value c, and two
\* neighbouring raw values differ by no more than one step of that scale.
C12_LinearRescale ==
    ax_pc = "normalized" =>
        /\ (InRange(ax_x) /\ ~InBand(ax_x)) =>
               Abs(ax_norm[1]) * (Span - 2 * DEADZONE) = (Off2(ax_x) - 2 * DEADZONE) * Span
        /\ (InRange(ax_x) /\ ax_y = ax_x + 1 /\ InRange(ax_y)) =>
               Abs(ax_norm[2] - ax_norm[1]) * (Span - 2 * DEADZONE) <= 2 * Span

\* C17: the line {"x": a, "y": b} makes the reader put exactly one sample,
\* with a and b as they are, and the sample (512, 512) gives forward = 0 and
\* turn = 0.
C17_RoundTrip ==
    ax_pc = "parsed" =>
        /\ ax_puts = << <<"joy", ax_x, ax_y>> >>
        /\ (ax_x = 512 /\ ax_y = 512) => ax_ctl = <<0, 0>>

\* the sample (512, 512) has gone through the reader
C17_Witness == ax_pc = "parsed" /\ ax_x = 512 /\ ax_y = 512 /\ Len(ax_puts) = 1

\* C18: the displacements of two raw values that mirror each other about
\* 512 are opposite, and one is zero exactly when the other is.
C18_SymmetricBand ==
    (ax_pc = "displaced" /\ ax_y = 2 * JoyCentre - ax_x) =>
        /\ (ax_disp[1] = 0) <=> (ax_disp[2] = 0)
        /\ ax_disp[1] = -ax_disp[2]

\* ------------------------------------------------------------------
\* character.py, the motion of a frame: properties
\* ------------------------------------------------------------------
FullRight == <<Msg(1023, 512)>>
FullLeft == <<Msg(0, 512)>>

\* C13 as claimed: the frame that applies (1023, 512), 0.1 s after the frame
\* before it, has turn = +1 and adds ROT_SPEED * 0.1 to the yaw; the frame
\* that applies (0, 512) has turn = -1 and lowers the yaw.
C13_FullTurnScenario ==
    /\ (mo_applied = FullRight /\ mo_elapsed = FPS \div 10) =>
           (mo_turn = CtrlUnit /\ mo_dyaw * 10 = CtrlUnit * ROT_SPEED * FPS)
    /\ (mo_applied = FullLeft /\ mo_elapsed = FPS \div 10) =>
           (mo_turn = -CtrlUnit /\ mo_dyaw < 0)

\* C13 amended: the frame that applies (1023, 512) has turn = +0.25
\* (SENSITIVITY_ROT) and adds 0.25 * ROT_SPEED * dt to the yaw, dt being the
\* elapsed time clamped to [0, 1/15] (1/15 s after 0.1 s); the frame that
\* applies (0, 512) has turn = -0.25 and adds -0.25 * ROT_SPEED * dt.
C13_ScaledTurnScenario ==
    /\ mo_applied = FullRight =>
           /\ mo_turn * SENSITIVITY_ROT_DEN = CtrlUnit * SENSITIVITY_ROT_NUM
           /\ mo_dyaw * SENSITIVITY_ROT_DEN = CtrlUnit * SENSITIVITY_ROT_NUM * ROT_SPEED * mo_dt
           /\ mo_elapsed = FPS \div 10 => mo_dt * 15 = FPS
    /\ mo_applied = FullLeft =>
           /\ mo_turn * SENSITIVITY_ROT_DEN = -CtrlUnit * SENSITIVITY_ROT_NUM
           /\ mo_dyaw * SENSITIVITY_ROT_DEN = -CtrlUnit * SENSITIVITY_ROT_NUM * ROT_SPEED * mo_dt
           /\ mo_elapsed = FPS \div 10 => (mo_dt * 15 = FPS /\ mo_dyaw < 0)

\* (1023, 512) and then (0, 512), one frame apart, 0.1 s between the frames
C13_Witness ==
    /\ mo_before = FullRight
    /\ mo_applied = FullLeft
    /\ mo_elapsed = FPS \div 10
    /\ mo_yaw = 0

\* C14: the dt of a frame lies in [0, 1/15], whatever time has elapsed, and
\* the frame turns the player by at most |turn| * ROT_SPEED / 15 and moves it
\* by at most |forward| * FORWARD_SPEED / 15.
C14_DtClamped ==
    mo_frames > 0 =>
        /\ 0 <= mo_dt /\ mo_dt * 15 <= FPS
        /\ Abs(mo_dyaw) <= Abs(mo_turn) * ROT_SPEED * (FPS \div 15)
        /\ mo_moved <= Abs(mo_forward) * FORWARD_SPEED * (FPS \div 15)

\* a frame after a stall of 5 s, moving and turning
C14_Witness ==
    /\ mo_elapsed = 5 * FPS
    /\ mo_dt * 15 = FPS
    /\ mo_moved > 0
    /\ mo_dyaw # 0

====
